---- MODULE Spec2Model ----
(***************************************************************************)
(* Model of the progress monitor of disk.py: the per-device poll state     *)
(* machine (DevState, _poll), the duration formatter (fmt_duration) and    *)
(* the dashboard session loop (_progress_ui); and of the line truncation   *)
(* of the dashboard (_vis_trunc).                                          *)
(*                                                                         *)
(* Conventions of the model                                                *)
(*  - Percentages are fixed-point integers in hundredths of a percent      *)
(*    (10.00% = 1000); the code uses floats, whose rounding is not         *)
(*    modelled.                                                            *)
(*  - time.monotonic() is an integer clock of whole seconds that advances  *)
(*    nondeterministically while the program sleeps or waits for an        *)
(*    external command.                                                    *)
(*  - The text printed by sg_requests is a sequence of tokens <<kind,      *)
(*    value>>; the regular expressions of _poll are evaluated on tokens.   *)
(*  - A string given to _vis_trunc is a sequence of characters; the        *)
(*    regular expression _ANSI_ESC is evaluated character by character.    *)
(***************************************************************************)
EXTENDS Integers, Sequences, FiniteSets, TLC

VARIABLES
    clock,         \* value time.monotonic() would return now
    states,        \* list of DevState, one per monitored device
    logfile,       \* records written through log(), oldest first
    calls,         \* external commands invoked by the latest direct _poll call
    raised,        \* exception that escaped the latest direct _poll call
    round,         \* outcomes of the two commands of the latest direct _poll call
    pc,            \* position of _progress_ui
    exc,           \* exception propagating out of the try body ("none" if none)
    interval,      \* local `interval` of _progress_ui
    paused,        \* local `paused`
    last_poll,     \* local `last_poll`
    first,         \* local `first` (next draw clears the screen)
    idx,           \* index of the device the poll loop of line 502 is at
    kbuf,          \* bytes typed and not yet read from stdin
    raw,           \* terminal is in raw mode
    cursorHidden,  \* the cursor-hide sequence is in effect
    footer,        \* footer of the frame on screen ("" if none)
    frame,         \* device rows and status line of the frame on screen
    vt             \* a call of _vis_trunc: its arguments and its result

devvars  == <<clock, states, logfile, calls, raised, round>>
sessvars == <<pc, exc, interval, paused, last_poll, first, idx, kbuf, raw,
              cursorHidden, footer, frame>>
vars     == <<clock, states, logfile, calls, raised, round, pc, exc, interval, paused,
              last_poll, first, idx, kbuf, raw, cursorHidden, footer, frame, vt>>

---------------------------------------------------------------------------
(* Bounds of the model *)

\* time.monotonic() when the DevStates are constructed
BootClock == 100
\* the clock stops advancing here
MaxClock == 102
\* largest advance of the clock during one sleep or one _poll call
MaxStep == 1

Min(a, b) == IF a < b THEN a ELSE b
Max(a, b) == IF a > b THEN a ELSE b

---------------------------------------------------------------------------
(* Output of the external status command, as tokens *)

MARKER == <<"marker", 0>>      \* "Progress indication" / "format in progress"
ERRKW  == <<"errkw", 0>>       \* a word containing "error" or "fail"
PCT    == <<"pct", 0>>         \* the character %
SLASH  == <<"slash", 0>>       \* the character /
WORD   == <<"word", 0>>        \* any other word
INT(n) == <<"int", n>>         \* a run of digits
DEC(h) == <<"dec", h>>         \* digits "." digits, h = its value in hundredths

\* Texts one invocation can print (inputs of the poll-level specification).
PollTexts ==
    { <<>>,
      <<WORD>>,
      <<MARKER, INT(50), SLASH, INT(100)>>,
      <<MARKER, INT(10), PCT>>,
      <<MARKER, DEC(4250), PCT>>,
      <<MARKER, INT(120), PCT>>,
      <<MARKER, INT(32768), SLASH, INT(65536)>>,
      <<MARKER, INT(12345), SLASH, INT(65535), WORD, INT(70), PCT>>,
      <<MARKER, INT(50), PCT, ERRKW>>,
      <<ERRKW>> }

\* Texts drawn by the session-level specification.
SessionTexts ==
    { <<>>, <<MARKER>>, <<ERRKW>> }

\* Result of one subprocess.run: it completed with text, hit the 10 s
\* timeout (TimeoutExpired), or could not be started (FileNotFoundError).
Completed(t) == <<"completed", t>>
TimedOut     == <<"timeout", <<>>>>
Unavailable  == <<"unavailable", <<>>>>

Outcomes(texts) == {Completed(t) : t \in texts} \cup {TimedOut, Unavailable}

---------------------------------------------------------------------------
(* fmt_duration *)

\* int(): truncation toward zero of the rational n/d, d > 0
TruncDiv(n, d) == IF n >= 0 THEN n \div d ELSE -((-n) \div d)

\* fmt_duration(n/d); the three layouts are "Hh MMm SSs", "Mm SSs" and "Ss"
fmt_duration(n, d) ==
    LET secs == Max(0, TruncDiv(n, d))
        h    == secs \div 3600
        rem  == secs % 3600
        m    == rem \div 60
        s    == rem % 60
    IN  IF h # 0 THEN [k |-> "hms", h |-> h, m |-> m, s |-> s]
        ELSE IF m # 0 THEN [k |-> "ms", h |-> 0, m |-> m, s |-> s]
        ELSE [k |-> "s", h |-> 0, m |-> 0, s |-> s]

EtaUnknown == [k |-> "--",   h |-> 0, m |-> 0, s |-> 0]
EtaDone    == [k |-> "done", h |-> 0, m |-> 0, s |-> 0]

---------------------------------------------------------------------------
(* _vis_trunc *)

ESC == "ESC"                       \* the character \033

\* [0-9;] and [A-Za-z], over the characters the model draws
ParamChars == {"0", "3", ";"}
Letters    == {"a", "m"}

RECURSIVE SkipParams(_, _)
SkipParams(s, j) ==
    IF j <= Len(s) /\ s[j] \in ParamChars THEN SkipParams(s, j + 1) ELSE j

\* _ANSI_ESC.match(s, i): the position after the match, 0 for no match
ANSI_ESC_match(s, i) ==
    IF i + 1 <= Len(s) /\ s[i] = ESC /\ s[i + 1] = "["
    THEN LET j == SkipParams(s, i + 2)
         IN  IF j <= Len(s) /\ s[j] \in Letters THEN j + 1 ELSE 0
    ELSE 0

\* '\033[0m'
Reset == <<ESC, "[", "0", "m">>

\* the reset never appended
ContainsEscNever(result) == FALSE

\* Line 317: '\033' in ''.join(result)
ContainsEsc(result) == \E j \in 1..Len(result) : result[j] = ESC

\* Lines 306-316: the while loop, from position i with `visible` characters
\* kept so far
RECURSIVE Scan(_, _, _, _, _)
Scan(s, width, i, visible, result) ==
    IF i > Len(s) THEN result
    ELSE LET e == ANSI_ESC_match(s, i)
         IN  IF e # 0
             THEN Scan(s, width, e, visible, result \o SubSeq(s, i, e - 1))
             ELSE IF visible >= width
                  THEN result
                  ELSE Scan(s, width, i + 1, visible + 1, Append(result, s[i]))

\* _vis_trunc(s, width)
vis_trunc(s, width) ==
    LET result == Scan(s, width, 1, 0, <<>>)
    IN  IF ContainsEsc(result) THEN result \o Reset ELSE result

\* No call of _vis_trunc under way
Idle == [parts |-> <<>>, s |-> <<>>, width |-> 0, out |-> <<>>, at |-> "idle"]

---------------------------------------------------------------------------
(* DevState *)

Devices == << [path |-> "/dev/sda", slot |-> 2], [path |-> "/dev/sdb", slot |-> 5] >>

\* DevState with ever_started initialised to True
DevStateStarted(device, now) ==
    [ path         |-> device.path,
      slot         |-> device.slot,
      status       |-> "waiting",
      ever_started |-> TRUE,
      progress     |-> 0,
      eta          |-> EtaUnknown,
      start        |-> now,
      prev_pct     |-> 0,
      prev_time    |-> now ]

DevState(device, now) ==
    [ path         |-> device.path,
      slot         |-> device.slot,
      status       |-> "waiting",
      ever_started |-> FALSE,
      progress     |-> 0,
      eta          |-> EtaUnknown,
      start        |-> now,
      prev_pct     |-> 0,
      prev_time    |-> now ]

\* the test of line 341 without "failed"
TerminalOnlyDone(st) == st.status = "done"

Terminal(st) == st.status \in {"done", "failed"}

---------------------------------------------------------------------------
(* _poll: running the two status commands *)

\* the loop with `return` in place of `continue`: a timeout ends the round
RunCommandsAbortOnTimeout(o1, o2) ==
    IF o1[1] = "unavailable"
    THEN [outputs |-> <<>>, raised |-> "FileNotFoundError", calls |-> 1]
    ELSE IF o1[1] = "timeout"
    THEN [outputs |-> <<>>, raised |-> "none", calls |-> 1]
    ELSE IF o2[1] = "unavailable"
    THEN [outputs |-> <<o1[2]>>, raised |-> "FileNotFoundError", calls |-> 2]
    ELSE IF o2[1] = "timeout"
    THEN [outputs |-> <<>>, raised |-> "none", calls |-> 2]
    ELSE [outputs |-> <<o1[2], o2[2]>>, raised |-> "none", calls |-> 2]

\* the loop with a timed-out command counted as one that printed nothing
RunCommandsTimeoutAsSilence(o1, o2) ==
    IF o1[1] = "unavailable"
    THEN [outputs |-> <<>>, raised |-> "FileNotFoundError", calls |-> 1]
    ELSE LET out1 == IF o1[1] = "completed" THEN <<o1[2]>> ELSE << <<>> >>
         IN  IF o2[1] = "unavailable"
             THEN [outputs |-> out1, raised |-> "FileNotFoundError", calls |-> 2]
             ELSE [outputs |-> Append(out1, IF o2[1] = "completed" THEN o2[2] ELSE <<>>),
                   raised  |-> "none",
                   calls   |-> 2]

\* Lines 344-353: the loop over the two commands.  A completed command
\* appends its text, TimeoutExpired is caught and skipped, any other
\* exception leaves the loop and _poll.  `calls` counts the commands invoked.
RunCommands(o1, o2) ==
    IF o1[1] = "unavailable"
    THEN [outputs |-> <<>>, raised |-> "FileNotFoundError", calls |-> 1]
    ELSE LET out1 == IF o1[1] = "completed" THEN <<o1[2]>> ELSE <<>>
         IN  IF o2[1] = "unavailable"
             THEN [outputs |-> out1, raised |-> "FileNotFoundError", calls |-> 2]
             ELSE [outputs |-> IF o2[1] = "completed" THEN Append(out1, o2[2]) ELSE out1,
                   raised  |-> "none",
                   calls   |-> 2]

\* Line 358: "\n".join(outputs); the newline only separates tokens
RECURSIVE Join(_)
Join(outputs) ==
    IF outputs = <<>> THEN <<>> ELSE Head(outputs) \o Join(Tail(outputs))

---------------------------------------------------------------------------
(* _poll: the regular expressions *)

\* Line 360: re.search(r"progress indication|format in progress", output, re.I)
HasProgressMarker(output) == \E i \in 1..Len(output) : output[i][1] = "marker"

\* Line 380: re.search(r"error|fail", output, re.I)
HasErrorKeyword(output) == \E i \in 1..Len(output) : output[i][1] = "errkw"

\* Positions where (\d+(?:\.\d+)?)\s*% matches
PercentAt(output) ==
    { i \in 1..(Len(output) - 1) :
        /\ output[i][1] \in {"int", "dec"}
        /\ output[i + 1][1] = "pct" }

\* Positions where \b(\d{1,5})\s*/\s*(65535|65536)\b matches
RatioAt(output) ==
    { i \in 1..(Len(output) - 2) :
        /\ output[i][1] = "int"
        /\ output[i][2] <= 99999
        /\ output[i + 1][1] = "slash"
        /\ output[i + 2][1] = "int"
        /\ output[i + 2][2] \in {65535, 65536} }

Leftmost(S) == CHOOSE i \in S : \A j \in S : i <= j

\* float(m_pct.group(1)), in hundredths of a percent
TokenValue(tok) == IF tok[1] = "int" THEN tok[2] * 100 ELSE tok[2]

\* lines 361-368 with the ratio looked for ahead of the literal percent
ExtractPctRatioFirst(output) ==
    IF RatioAt(output) # {}
    THEN LET i == Leftmost(RatioAt(output))
         IN  << (output[i][2] * 10000) \div output[i + 2][2] >>
    ELSE IF PercentAt(output) # {}
         THEN << TokenValue(output[Leftmost(PercentAt(output))]) >>
         ELSE <<>>

\* Lines 361-368: pct, <<>> for None and <<v>> for the float v
ExtractPct(output) ==
    IF PercentAt(output) # {}
    THEN << TokenValue(output[Leftmost(PercentAt(output))]) >>
    ELSE IF RatioAt(output) # {}
         THEN LET i == Leftmost(RatioAt(output))
              IN  << (output[i][2] * 10000) \div output[i + 2][2] >>
         ELSE <<>>

---------------------------------------------------------------------------
(* _poll: the three branches *)

\* line 379 without the upper clamp
ClampNoUpper(pct) == Max(0, pct)

\* Line 379: max(0.0, min(100.0, pct))
ClampProgress(pct) == Max(0, Min(10000, pct))

\* line 376 with the test on dt left out
EtaNoDtGuard(st, pct, now) ==
    LET dt == now - st.prev_time
        dp == pct - st.prev_pct
    IN  IF dp > 0
        THEN fmt_duration((10000 - pct) * dt, dp)
        ELSE EtaUnknown

\* Line 376: the ETA of a sample
Eta(st, pct, now) ==
    LET dt == now - st.prev_time
        dp == pct - st.prev_pct
    IN  IF dt > 0 /\ dp > 0
        THEN fmt_duration((10000 - pct) * dt, dp)
        ELSE EtaUnknown

\* Lines 370-379
ApplyProgress(st, pct, now) ==
    LET started == [st EXCEPT !.ever_started = TRUE, !.status = "formatting"]
    IN  IF pct = <<>>
        THEN started
        ELSE [started EXCEPT !.eta       = Eta(st, pct[1], now),
                             !.prev_pct  = pct[1],
                             !.prev_time = now,
                             !.progress  = ClampProgress(pct[1])]

\* Lines 381-383
ApplyFailed(st) ==
    [st EXCEPT !.status = "failed", !.progress = 0, !.eta = EtaUnknown]

\* Lines 386-388
ApplyDone(st) ==
    [st EXCEPT !.status = "done", !.progress = 10000, !.eta = EtaDone]

LogRecord(kind, st) == <<kind, st.slot, st.path>>

\* the chain with the error test ahead of the progress test
ClassifyErrorFirst(output, st) ==
    IF HasErrorKeyword(output) THEN "Errored"
    ELSE IF HasProgressMarker(output) THEN "Progress"
    ELSE IF st.ever_started THEN "ImplicitDone"
    ELSE "NoSignal"

\* the chain with a plain `else` in place of `elif state.ever_started`
ClassifyNoStartedGuard(output, st) ==
    IF HasProgressMarker(output) THEN "Progress"
    ELSE IF HasErrorKeyword(output) THEN "Errored"
    ELSE "ImplicitDone"

\* Lines 360, 380, 385: the if / elif / elif chain that picks the branch
Classify(output, st) ==
    IF HasProgressMarker(output) THEN "Progress"
    ELSE IF HasErrorKeyword(output) THEN "Errored"
    ELSE IF st.ever_started THEN "ImplicitDone"
    ELSE "NoSignal"

\* Lines 358-389: what _poll does with the collected outputs
Evaluate(st, outputs, now) ==
    LET output == Join(outputs)
        event  == Classify(output, st)
    IN  IF event = "Progress"
        THEN [st |-> ApplyProgress(st, ExtractPct(output), now), log |-> <<>>]
        ELSE IF event = "Errored"
        THEN [st |-> ApplyFailed(st), log |-> <<LogRecord("FORMAT_FAILED", st)>>]
        ELSE IF event = "ImplicitDone"
        THEN [st |-> ApplyDone(st), log |-> <<LogRecord("FORMAT_COMPLETE", st)>>]
        ELSE [st |-> st, log |-> <<>>]

\* Lines 340-389: _poll(state) with the outcomes o1, o2 of its two commands;
\* `now` is time.monotonic() at line 373.
Poll(st, o1, o2, now) ==
    IF Terminal(st)
    THEN [st |-> st, log |-> <<>>, raised |-> "none", calls |-> 0]
    ELSE LET run == RunCommands(o1, o2)
         IN  IF run.raised # "none"
             THEN [st |-> st, log |-> <<>>, raised |-> run.raised, calls |-> run.calls]
             ELSE IF run.outputs = <<>>
             THEN [st |-> st, log |-> <<>>, raised |-> "none", calls |-> run.calls]
             ELSE LET ev == Evaluate(st, run.outputs, now)
                  IN  [st |-> ev.st, log |-> ev.log, raised |-> "none",
                       calls |-> run.calls]

\* The screen before the first draw
Blank == [rows |-> <<>>, paused |-> FALSE, interval |-> 0]

---------------------------------------------------------------------------
(* Poll-level specification: _poll called repeatedly on one DevState *)

PollInit ==
    /\ clock = BootClock
    /\ states = << DevState(Devices[1], BootClock) >>
    /\ logfile = <<>>
    /\ calls = 0
    /\ raised = "none"
    /\ round = <<>>
    /\ pc = "start"
    /\ exc = "none"
    /\ interval = 5
    /\ paused = FALSE
    /\ last_poll = 0
    /\ first = TRUE
    /\ idx = 0
    /\ kbuf = <<>>
    /\ raw = FALSE
    /\ cursorHidden = FALSE
    /\ footer = ""
    /\ frame = Blank
    /\ vt = Idle

\* One direct call _poll(states[i]); the commands take d seconds.  The
\* caller records what the commands did and what the call raised.
PollCall(i, o1, o2, d) ==
    LET r == Poll(states[i], o1, o2, clock + d)
    IN  /\ clock + d <= MaxClock
        /\ clock' = clock + d
        /\ states' = [states EXCEPT ![i] = r.st]
        /\ logfile' = logfile \o r.log
        /\ calls' = r.calls
        /\ raised' = r.raised
        /\ round' = <<o1, o2>>
        /\ UNCHANGED <<sessvars, vt>>

PollNext ==
    \E i \in 1..Len(states), o1, o2 \in Outcomes(PollTexts), d \in 0..MaxStep :
        PollCall(i, o1, o2, d)

PollSpec == PollInit /\ [][PollNext]_vars

---------------------------------------------------------------------------
(* _progress_ui: keyboard *)

\* Bytes typed between two reads of stdin (inputs of the session).
Bursts ==
    { <<"q">>, <<"ESC">>, <<"CTRL_C">>, <<"p">>, <<"r">>, <<"+">>, <<"-">>, <<"x">>,
      <<"+", "+">>, <<"x", "q">>, <<"p", "r">> }

\* os.read(fd, 4) returns at most this many bytes
ReadSize == 4

Take(seq, n) == SubSeq(seq, 1, Min(n, Len(seq)))
Drop(seq, n) == SubSeq(seq, Min(n, Len(seq)) + 1, Len(seq))

\* a wait that leaves on any key
IsQuitKeyAny(k) == TRUE

\* Lines 493 and 510: the keys that leave the loop
IsQuitKey(k) == k \in {"q", "Q", "CTRL_C", "ESC"}

\* Line 496
IntervalUp(i) == Min(60, i + 1)

\* line 497 without max(1, ...)
IntervalDownNoClamp(i) == i - 1

\* Line 497
IntervalDown(i) == Max(1, i - 1)

\* line 495 with last_poll = time.monotonic() in place of 0.0
RefreshToNow(lp) == clock

\* Line 495: what 'r' assigns to last_poll
Refresh(lp) == 0

\* line 500 without `not paused`
PollDueIgnoringPause(now) == (now - last_poll) >= interval

\* Line 500: the poll round is due
PollDue(now) == ~paused /\ (now - last_poll) >= interval

\* line 505 without the any(s.ever_started ...) test
AllCompleteNoStartedTest ==
    \A i \in 1..Len(states) : Terminal(states[i])

\* line 505 with a failed device not counted as finished
AllCompleteOnlyDone ==
    /\ \A i \in 1..Len(states) : states[i].status = "done"
    /\ \E i \in 1..Len(states) : states[i].ever_started

\* Line 505: every device is terminal and one of them ever started
AllComplete ==
    /\ \A i \in 1..Len(states) : Terminal(states[i])
    /\ \E i \in 1..Len(states) : states[i].ever_started

CompleteFooter == "  All formatting complete.  Press q to exit."

---------------------------------------------------------------------------
(* draw *)

\* Lines 418-433: label and percentage text of a device row; the percentage
\* is <<>> for the empty string of a waiting device
Row(st) ==
    IF st.status = "done" THEN [label |-> "done", pct |-> <<10000>>]
    ELSE IF st.status = "failed" THEN [label |-> "FAILED", pct |-> <<0>>]
    ELSE IF st.status = "waiting" THEN [label |-> "waiting", pct |-> <<>>]
    ELSE [label |-> "formatting", pct |-> <<st.progress>>]

\* a draw whose status line keeps the interval the session started with
RenderInitialInterval ==
    [ rows     |-> [i \in 1..Len(states) |-> Row(states[i])],
      paused   |-> paused,
      interval |-> 5 ]

\* Lines 415-469: what draw() puts on screen from the variables it closes
\* over: one row per device, then PAUSED or the interval.  The timestamp, the
\* elapsed times, the tallies and the countdown are left out.
Render ==
    [ rows     |-> [i \in 1..Len(states) |-> Row(states[i])],
      paused   |-> paused,
      interval |-> interval ]

---------------------------------------------------------------------------
(* _progress_ui: the session *)

Init ==
    /\ clock = BootClock
    /\ states = [i \in 1..Len(Devices) |-> DevState(Devices[i], BootClock)]
    /\ logfile = <<>>
    /\ calls = 0
    /\ raised = "none"
    /\ round = <<>>
    /\ pc = "start"
    /\ exc = "none"
    /\ interval = 5
    /\ paused = FALSE
    /\ last_poll = 0
    /\ first = TRUE
    /\ idx = 0
    /\ kbuf = <<>>
    /\ raw = FALSE
    /\ cursorHidden = FALSE
    /\ footer = ""
    /\ frame = Blank
    /\ vt = Idle

\* Lines 482-488: save the settings, hide the cursor, enter raw mode, first draw
Enter ==
    /\ pc = "start"
    /\ cursorHidden' = TRUE
    /\ raw' = TRUE
    /\ first' = FALSE
    /\ footer' = ""
    /\ frame' = Render
    /\ pc' = "input"
    /\ UNCHANGED <<devvars, vt, exc, interval, paused, last_poll, idx, kbuf>>

\* The operator types while the loop is not reading.
KeyPress(b) ==
    /\ pc \in {"input", "wait"}
    /\ kbuf = <<>>
    /\ kbuf' = b
    /\ UNCHANGED <<devvars, vt, pc, exc, interval, paused, last_poll, first, idx,
                   raw, cursorHidden, footer, frame>>

\* Lines 490-497: select, os.read(fd, 4), dispatch on the first byte
ReadKey ==
    /\ pc = "input"
    /\ IF kbuf = <<>>
       THEN /\ pc' = "poll"
            /\ UNCHANGED <<kbuf, paused, last_poll, interval>>
       ELSE LET ch == Take(kbuf, ReadSize)
                k  == ch[1]
            IN  /\ kbuf' = Drop(kbuf, ReadSize)
                /\ pc' = IF IsQuitKey(k) THEN "finally" ELSE "poll"
                /\ paused' = IF k \in {"p", "P"} THEN ~paused ELSE paused
                /\ last_poll' = IF k \in {"r", "R"} THEN Refresh(last_poll) ELSE last_poll
                /\ interval' = IF k = "+" THEN IntervalUp(interval)
                               ELSE IF k = "-" THEN IntervalDown(interval)
                               ELSE interval
    /\ UNCHANGED <<devvars, vt, exc, first, idx, raw, cursorHidden, footer, frame>>

\* Lines 499-501: now = time.monotonic(); start the poll round if it is due
StartRound ==
    /\ pc = "poll"
    /\ IF PollDue(clock)
       THEN /\ last_poll' = clock
            /\ idx' = 1
            /\ pc' = IF Len(states) = 0 THEN "check" ELSE "polling"
       ELSE /\ pc' = "check"
            /\ UNCHANGED <<last_poll, idx>>
    /\ UNCHANGED <<devvars, vt, exc, interval, paused, first, kbuf, raw,
                   cursorHidden, footer, frame>>

\* Lines 502-503: one iteration of the loop, _poll(states[idx]), the
\* commands taking d seconds; an exception of _poll leaves the try body.
PollDevice(o1, o2, d) ==
    LET r == Poll(states[idx], o1, o2, clock + d)
    IN  /\ pc = "polling"
        /\ clock + d <= MaxClock
        /\ clock' = clock + d
        /\ states' = [states EXCEPT ![idx] = r.st]
        /\ logfile' = logfile \o r.log
        /\ IF r.raised # "none"
           THEN /\ exc' = r.raised
                /\ pc' = "finally"
                /\ idx' = idx
           ELSE /\ exc' = exc
                /\ idx' = IF idx < Len(states) THEN idx + 1 ELSE 0
                /\ pc' = IF idx < Len(states) THEN "polling" ELSE "check"
        /\ UNCHANGED <<vt, calls, raised, round, interval, paused, last_poll, first,
                       kbuf, raw, cursorHidden, footer, frame>>

\* Lines 505-506: all devices complete: final frame, enter the quit-only wait
DrawComplete ==
    /\ pc = "check"
    /\ AllComplete
    /\ footer' = CompleteFooter
    /\ frame' = Render
    /\ first' = FALSE
    /\ pc' = "wait"
    /\ UNCHANGED <<devvars, vt, exc, interval, paused, last_poll, idx, kbuf, raw,
                   cursorHidden>>

\* Lines 514-515: draw(); time.sleep(0.2)
DrawSleep(d) ==
    /\ pc = "check"
    /\ ~AllComplete
    /\ clock + d <= MaxClock
    /\ clock' = clock + d
    /\ footer' = ""
    /\ frame' = Render
    /\ first' = FALSE
    /\ pc' = "input"
    /\ UNCHANGED <<vt, states, logfile, calls, raised, round, exc, interval, paused,
                   last_poll, idx, kbuf, raw, cursorHidden>>

\* Line 479: sys.stdout.write of a frame fails
DrawRaises ==
    /\ pc = "check"
    /\ exc' = "OSError"
    /\ pc' = "finally"
    /\ UNCHANGED <<devvars, vt, interval, paused, last_poll, first, idx, kbuf,
                   raw, cursorHidden, footer, frame>>

\* Lines 507-511: the quit-only wait reads a key
WaitKey ==
    /\ pc = "wait"
    /\ kbuf # <<>>
    /\ kbuf' = Drop(kbuf, ReadSize)
    /\ pc' = IF IsQuitKey(Take(kbuf, ReadSize)[1]) THEN "finally" ELSE "wait"
    /\ UNCHANGED <<devvars, vt, exc, interval, paused, last_poll, first, idx,
                   raw, cursorHidden, footer, frame>>

\* SIGINT delivered to the process inside the try body: KeyboardInterrupt
Interrupt ==
    /\ pc \in {"input", "poll", "polling", "check", "wait"}
    /\ exc' = "KeyboardInterrupt"
    /\ pc' = "finally"
    /\ UNCHANGED <<devvars, vt, interval, paused, last_poll, first, idx, kbuf,
                   raw, cursorHidden, footer, frame>>

\* the cleanup placed after the loop instead of in a finally block
CleanupOnlyOnReturn(e) == e = "none"

\* Line 516: a finally block runs however the try body ended (e is the
\* pending exception, "none" after a break)
CleanupRuns(e) == TRUE

\* Lines 516-519: tcsetattr(old), cursor-show, then return or re-raise
Finally ==
    /\ pc = "finally"
    /\ raw' = IF CleanupRuns(exc) THEN FALSE ELSE raw
    /\ cursorHidden' = IF CleanupRuns(exc) THEN FALSE ELSE cursorHidden
    /\ pc' = IF exc = "none" THEN "returned" ELSE "propagated"
    /\ UNCHANGED <<devvars, vt, exc, interval, paused, last_poll, first, idx,
                   kbuf, footer, frame>>

Next ==
    \/ Enter
    \/ \E b \in Bursts : KeyPress(b)
    \/ ReadKey
    \/ StartRound
    \/ \E o1, o2 \in Outcomes(SessionTexts), d \in 0..MaxStep : PollDevice(o1, o2, d)
    \/ DrawComplete
    \/ \E d \in 0..MaxStep : DrawSleep(d)
    \/ DrawRaises
    \/ WaitKey
    \/ Interrupt
    \/ Finally

Spec == Init /\ [][Next]_vars

---------------------------------------------------------------------------
(* Truncation specification: _vis_trunc called once on a drawn string *)

MaxParts == 3      \* visible characters and control sequences in a string
MaxWidth == 3      \* largest width asked for

\* What a string is made of: a visible character or a whole colour-control
\* sequence (with one parameter, with none, with two)
Parts ==
    { <<"a">>, <<"3">>, <<"[">>,
      <<ESC, "[", "3", "m">>, <<ESC, "[", "m">>, <<ESC, "[", "0", ";", "3", "m">> }

RECURSIVE Flatten(_)
Flatten(ps) == IF ps = <<>> THEN <<>> ELSE Head(ps) \o Flatten(Tail(ps))

\* Arguments of a call: the string of up to MaxParts parts, and the width
TruncInputs ==
    { [parts |-> ps, s |-> Flatten(ps), width |-> w, out |-> <<>>, at |-> "call"] :
        ps \in UNION { [1..n -> Parts] : n \in 0..MaxParts }, w \in 0..MaxWidth }

TruncInit ==
    /\ vt \in TruncInputs
    /\ clock = BootClock
    /\ states = <<>>
    /\ logfile = <<>>
    /\ calls = 0
    /\ raised = "none"
    /\ round = <<>>
    /\ pc = "start"
    /\ exc = "none"
    /\ interval = 5
    /\ paused = FALSE
    /\ last_poll = 0
    /\ first = TRUE
    /\ idx = 0
    /\ kbuf = <<>>
    /\ raw = FALSE
    /\ cursorHidden = FALSE
    /\ footer = ""
    /\ frame = Blank

\* The call _vis_trunc(vt.s, vt.width) returns
TruncCall ==
    /\ vt.at = "call"
    /\ vt' = [vt EXCEPT !.out = vis_trunc(vt.s, vt.width), !.at = "returned"]
    /\ UNCHANGED <<devvars, sessvars>>

TruncNext == TruncCall

TruncSpec == TruncInit /\ [][TruncNext]_vars

---------------------------------------------------------------------------
(* Vocabulary of the properties *)

\* The DevState of the poll-level specification
Dev == states[1]

\* The round r ran both commands to an end (completed or timed out)
RoundRan(r) == r # <<>> /\ r[1][1] # "unavailable" /\ r[2][1] # "unavailable"

\* Texts of the completed invocations of round r, plain invocation first
RoundOutputs(r) ==
    (IF r[1][1] = "completed" THEN <<r[1][2]>> ELSE <<>>)
        \o (IF r[2][1] = "completed" THEN <<r[2][2]>> ELSE <<>>)

RoundText(r) == Join(RoundOutputs(r))

\* The percentage a round carries: <<v>>, or <<>> when it reports none
RoundPct(r) ==
    IF RoundRan(r) /\ HasProgressMarker(RoundText(r))
    THEN ExtractPct(RoundText(r))
    ELSE <<>>

\* A round that ran and whose text has no progress marker and no error keyword
NoSignalRound(r) ==
    /\ RoundRan(r)
    /\ ~HasProgressMarker(RoundText(r))
    /\ ~HasErrorKeyword(RoundText(r))

\* The byte a step of the main loop dispatches on: the first byte of the
\* read it takes from stdin ("none" for a step that reads nothing)
FirstKey == IF pc = "input" /\ kbuf # <<>> /\ kbuf' # kbuf THEN kbuf[1] ELSE "none"

---------------------------------------------------------------------------
(* Properties of _poll, checked under PollSpec *)

\* C1: once a device is done or failed, a further _poll call on it, whatever
\* the commands would answer, changes none of its fields, writes no log
\* record and invokes no external command.
C1_TerminalAbsorbing ==
    [][Dev.status \in {"done", "failed"}
         => (Dev' = Dev /\ logfile' = logfile /\ calls' = 0 /\ raised' = "none")]_vars

\* C1 witness: a done device was polled with text that would otherwise matter.
C1_Witness ==
    /\ Dev.status = "done"
    /\ calls = 0
    /\ round = <<Completed(<<MARKER, INT(10), PCT>>), Completed(<<ERRKW>>)>>

\* C2 as stated: while a device stays in formatting its progress never
\* decreases from one poll round to the next.
C2_ProgressNeverDecreases ==
    [][(Dev.status = "formatting" /\ Dev'.status = "formatting")
         => Dev'.progress >= Dev.progress]_vars

\* C2 amended: a round that keeps a formatting device in formatting sets its
\* progress to the reported percentage clamped to [0,100] (lower than before
\* if the tool reports less) and leaves it alone when no percentage is
\* reported; leaving formatting sets progress to 0 (failed) or 100 (done).
C2_ProgressFollowsReport ==
    [][Dev.status = "formatting" =>
         /\ Dev'.status \in {"formatting", "failed", "done"}
         /\ Dev'.status = "formatting" =>
              Dev'.progress =
                  IF RoundPct(round') = <<>> THEN Dev.progress
                  ELSE IF RoundPct(round')[1] > 10000 THEN 10000
                  ELSE RoundPct(round')[1]
         /\ Dev'.status = "failed" => Dev'.progress = 0
         /\ Dev'.status = "done" => Dev'.progress = 10000]_vars

\* C2 witness: a formatting device shows the 10% its latest round reported.
C2_Witness ==
    /\ Dev.status = "formatting"
    /\ Dev.progress = 1000
    /\ Dev.prev_time > Dev.start
    /\ round = <<Completed(<<MARKER, INT(10), PCT>>), TimedOut>>

\* C3: a device becomes done only if ever_started was true before the round,
\* and a waiting device whose round has no progress marker and no error
\* keyword is left exactly as it was, with no log record.
C3_NeverStartedStaysWaiting ==
    [][/\ (Dev'.status = "done" /\ Dev.status # "done") => Dev.ever_started
       /\ (Dev.status = "waiting" /\ NoSignalRound(round'))
            => (Dev' = Dev /\ logfile' = logfile)]_vars

\* C3 witness: a waiting device after a round of text without any signal.
C3_Witness ==
    /\ Dev.status = "waiting"
    /\ ~Dev.ever_started
    /\ round = <<Completed(<<WORD>>), Completed(<<>>)>>

\* C4: a round whose text has both a progress marker and an error keyword is
\* a Progress round: the device is formatting afterwards, never failed.
C4_ProgressBeatsError ==
    [][(/\ Dev.status \in {"waiting", "formatting"}
        /\ RoundRan(round')
        /\ HasProgressMarker(RoundText(round'))
        /\ HasErrorKeyword(RoundText(round')))
         => (/\ Dev'.status = "formatting"
             /\ Dev'.ever_started
             /\ logfile' = logfile)]_vars

\* C4 witness: error text from the plain command, a marker from --progress.
C4_Witness ==
    /\ Dev.status = "formatting"
    /\ logfile = <<>>
    /\ round = <<Completed(<<ERRKW>>), Completed(<<MARKER, INT(50), SLASH, INT(100)>>)>>

\* C6: when exactly one of the two invocations times out, the device ends
\* the round as if the other invocation's text were the whole output.
C6_OneTimeoutOtherEvaluated ==
    [][\A t \in PollTexts :
         (/\ Dev.status \in {"waiting", "formatting"}
          /\ round' \in {<<TimedOut, Completed(t)>>, <<Completed(t), TimedOut>>})
           => (/\ Dev' = Evaluate(Dev, <<t>>, clock').st
               /\ logfile' = logfile \o Evaluate(Dev, <<t>>, clock').log
               /\ calls' = 2
               /\ raised' = "none")]_vars

\* C6 witness: the plain command timed out and the other one's error text
\* failed the device.
C6_Witness ==
    /\ Dev.status = "failed"
    /\ calls = 2
    /\ round = <<TimedOut, Completed(<<ERRKW>>)>>

\* C8: a device starts in waiting and every change of status is
\* waiting->formatting on a Progress round, waiting->failed or
\* formatting->failed on an Errored round, or formatting->done on a round
\* without marker and error keyword.
C8_OnlyFourTransitions ==
    /\ Dev.status = "waiting"
    /\ [][Dev'.status # Dev.status =>
            /\ RoundRan(round')
            /\ RoundOutputs(round') # <<>>
            /\ \/ /\ Dev.status = "waiting" /\ Dev'.status = "formatting"
                  /\ HasProgressMarker(RoundText(round'))
               \/ /\ Dev.status \in {"waiting", "formatting"} /\ Dev'.status = "failed"
                  /\ ~HasProgressMarker(RoundText(round'))
                  /\ HasErrorKeyword(RoundText(round'))
               \/ /\ Dev.status = "formatting" /\ Dev'.status = "done"
                  /\ ~HasProgressMarker(RoundText(round'))
                  /\ ~HasErrorKeyword(RoundText(round'))]_vars

\* C8 witness: a device that went waiting -> formatting -> done.
C8_Witness ==
    /\ Dev.status = "done"
    /\ Dev.ever_started
    /\ logfile = <<LogRecord("FORMAT_COMPLETE", Dev)>>

---------------------------------------------------------------------------
(* Properties of the session, checked under Spec *)

\* C5: no status invocation that cannot be started makes _poll raise: the
\* session is never ended by an exception of a poll round.
C5_PollNeverRaises == exc # "FileNotFoundError"

\* C7: when _progress_ui has returned or let an exception propagate, the
\* terminal is out of raw mode and the cursor is shown again.
C7_TerminalRestoredOnExit ==
    pc \in {"returned", "propagated"} => (~raw /\ ~cursorHidden)

\* C7 witness: the session was ended by an exception and cleaned up.
C7_Witness ==
    /\ pc = "propagated"
    /\ exc \in {"OSError", "KeyboardInterrupt"}
    /\ ~raw
    /\ ~cursorHidden

\* C9: a step that leaves paused true polls no device: the device states
\* and the log are unchanged, last_poll is not advanced and the poll loop is
\* not entered, however long ago the last poll round was.
C9_NoPollWhilePaused ==
    [][paused' => (/\ states' = states
                   /\ logfile' = logfile
                   /\ last_poll' <= last_poll
                   /\ pc' # "polling")]_vars

\* C9 witness: paused, past the poll step of a tick in which a round was
\* overdue for a device that is not terminal.
C9_Witness ==
    /\ paused
    /\ pc = "check"
    /\ clock - last_poll >= interval
    /\ \E i \in 1..Len(states) : states[i].status = "formatting"

\* C10: interval starts at 5 and stays in 1..60; only the input step changes
\* it, '+' by +1 up to 60 and '-' by -1 down to 1.
C10_IntervalClamped ==
    /\ interval = 5
    /\ [][/\ interval' \in 1..60
          /\ interval' =
               IF FirstKey = "+" THEN (IF interval < 60 THEN interval + 1 ELSE 60)
               ELSE IF FirstKey = "-" THEN (IF interval > 1 THEN interval - 1 ELSE 1)
               ELSE interval]_vars

\* C10 witness: the interval at its upper limit after an input step.
C10_Witness == interval = 60 /\ pc = "poll"

\* C11: an 'r' read by the input step changes last_poll to zero and nothing
\* else; the poll step that follows with paused false starts a round at the
\* first device whatever the interval and the time of the previous round, and
\* a round that is not cut short by an exception calls _poll on every device
\* in order before the frame is drawn.
C11_RefreshForcesRound ==
    [][/\ FirstKey \in {"r", "R"} =>
            /\ last_poll' = 0
            /\ pc' = "poll"
            /\ UNCHANGED <<states, logfile, paused, interval, clock>>
       /\ (pc = "poll" /\ pc' # "finally" /\ last_poll = 0 /\ ~paused) =>
            /\ pc' = "polling"
            /\ idx' = 1
            /\ last_poll' = clock
       /\ (pc = "polling" /\ pc' # "finally") =>
            /\ pc' = "polling" => (idx < Len(states) /\ idx' = idx + 1)
            /\ pc' # "polling" => (idx = Len(states) /\ pc' = "check")]_vars

\* C11 witness: 'r' was read although the previous round, which moved the
\* first device to formatting, ran less than an interval ago.
C11_Witness ==
    /\ pc = "poll"
    /\ last_poll = 0
    /\ ~paused
    /\ interval > MaxClock - BootClock
    /\ states[1].status = "formatting"

\* The keys that end the session in the code: q, Q, Ctrl-C and ESC
QuitKeys == {"q", "Q", "CTRL_C", "ESC"}

\* C12: when the poll step of a tick leaves every device done or failed and
\* one of them ever started, the next step draws the frame with the
\* 'complete' footer and enters the wait; in the wait no device is polled,
\* device states, log, paused, interval, last_poll and the frame stay as they
\* are, and the session leaves the wait (without exception) exactly when a
\* read starts with a quit key.
C12_CompletionWait ==
    [][/\ (/\ pc = "check"
           /\ pc' # "finally"
           /\ \A i \in 1..Len(states) : states[i].status \in {"done", "failed"}
           /\ \E i \in 1..Len(states) : states[i].ever_started)
            => (/\ pc' = "wait"
                /\ footer' = CompleteFooter
                /\ UNCHANGED <<states, logfile, paused, interval, last_poll>>)
       /\ pc = "wait" =>
            /\ UNCHANGED <<states, logfile, paused, interval, last_poll, footer, clock>>
            /\ pc' \in {"wait", "finally"}
            /\ (pc' = "finally" /\ exc' = "none")
                 <=> (kbuf # <<>> /\ kbuf' # kbuf /\ kbuf[1] \in QuitKeys)]_vars

\* C12 witness: in the wait, one device failed and the other done, with a
\* key pending that is not a quit key.
C12_Witness ==
    /\ pc = "wait"
    /\ footer = CompleteFooter
    /\ states[1].status = "failed"
    /\ states[2].status = "done"
    /\ kbuf = <<"p">>

\* The label draw() gives a status
LabelOf(status) == IF status = "failed" THEN "FAILED" ELSE status

\* C13: a tick runs key handling, then the poll round, then the draw: the
\* positions follow in that order, paused and interval change only in the
\* input step and device states only in the poll round, a frame is drawn only
\* after both and shows paused, interval and the device statuses as they are
\* after them, and a 'p' that pauses is followed by a poll step that polls
\* nothing.
C13_TickOrder ==
    [][/\ pc = "input"   => pc' \in {"input", "poll", "finally"}
       /\ pc = "poll"    => pc' \in {"polling", "check", "finally"}
       /\ pc = "polling" => pc' \in {"polling", "check", "finally"}
       /\ pc = "check"   => pc' \in {"input", "wait", "finally"}
       /\ (paused' # paused \/ interval' # interval) => (pc = "input" /\ pc' # "input")
       /\ states' # states => pc = "polling"
       /\ frame' # frame => pc \in {"start", "check"}
       /\ (pc = "check" /\ pc' \in {"input", "wait"}) =>
            /\ frame'.paused = paused'
            /\ frame'.interval = interval'
            /\ Len(frame'.rows) = Len(states')
            /\ \A i \in 1..Len(states') :
                 frame'.rows[i].label = LabelOf(states'[i].status)
       /\ (FirstKey \in {"p", "P"} /\ ~paused) => (paused' /\ pc' = "poll")
       /\ (pc = "poll" /\ paused) => (pc' \in {"check", "finally"} /\ states' = states)
      ]_vars

\* C13 witness: the frame of a tick that read '+' and '-' keys, paused, and
\* whose earlier round moved the first device to formatting.
C13_Witness ==
    /\ pc = "input"
    /\ frame.paused
    /\ frame.interval = 7
    /\ frame.rows[1].label = "formatting"
    /\ frame.rows[2].label = "FAILED"

---------------------------------------------------------------------------
(* Further properties of _poll, checked under PollSpec *)

\* C14: a _poll call appends exactly one FORMAT_FAILED record when it changes
\* the status to failed, exactly one FORMAT_COMPLETE record when it changes
\* it to done, and nothing otherwise; a device never has more than one record.
C14_LogOnTerminalTransitions ==
    [][/\ logfile' = logfile \o
            (IF Dev'.status = "failed" /\ Dev.status # "failed"
             THEN << <<"FORMAT_FAILED", Dev.slot, Dev.path>> >>
             ELSE IF Dev'.status = "done" /\ Dev.status # "done"
             THEN << <<"FORMAT_COMPLETE", Dev.slot, Dev.path>> >>
             ELSE <<>>)
       /\ Len(logfile') <= 1]_vars

\* C14 witness: a failed device with its one record, polled again with
\* error text.
C14_Witness ==
    /\ Dev.status = "failed"
    /\ logfile = << <<"FORMAT_FAILED", 2, "/dev/sda">> >>
    /\ round = <<Completed(<<ERRKW>>), Completed(<<ERRKW>>)>>
    /\ calls = 0

---------------------------------------------------------------------------
(* Further properties of the keyboard handling, checked under Spec *)

\* The byte a read of stdin dispatches on, in the main loop (line 491) or in
\* the completion wait (line 509); "none" for a step that reads nothing
KeyRead ==
    IF pc \in {"input", "wait"} /\ kbuf # <<>> /\ kbuf' # kbuf
    THEN kbuf[1] ELSE "none"

\* The keys the description of the session lists
ListedKeys == {"q", "Q", "CTRL_C", "p", "P", "r", "R", "+", "-"}

\* C15 as stated: a key outside q/Q, Ctrl-C, p/P, r/R, '+', '-' does not end
\* the session and leaves paused, interval, last_poll and the device states
\* unchanged.
C15_UnlistedKeyIgnored ==
    [][(KeyRead # "none" /\ KeyRead \notin ListedKeys) =>
          /\ pc' # "finally"
          /\ UNCHANGED <<paused, interval, last_poll, states>>]_vars

\* C15 amended: ESC ends the session like q; any other key outside the
\* listed ones does not end it and leaves paused, interval, last_poll, the
\* device states and the log unchanged.
C15_UnlistedKeyIgnoredExceptEsc ==
    [][/\ (KeyRead # "none" /\ KeyRead \notin ListedKeys \cup {"ESC"}) =>
            /\ pc' = (IF pc = "input" THEN "poll" ELSE "wait")
            /\ UNCHANGED <<paused, interval, last_poll, states, logfile, exc>>
       /\ KeyRead = "ESC" =>
            /\ pc' = "finally"
            /\ UNCHANGED <<paused, interval, last_poll, states, logfile, exc>>]_vars

\* C15 witness: an unlisted key is about to be read while the session is
\* paused with a changed interval and a device is formatting.
C15_Witness ==
    /\ pc = "input"
    /\ kbuf = <<"x", "q">>
    /\ paused
    /\ interval = 6
    /\ states[1].status = "formatting"

\* What handling every key of a read in arrival order would leave, from the
\* control state c, stopping at the first quit key
RECURSIVE ApplyKeys(_, _)
ApplyKeys(keys, c) ==
    IF keys = <<>> \/ c.quit THEN c
    ELSE LET k == Head(keys)
         IN  ApplyKeys(Tail(keys),
                 [quit      |-> k \in QuitKeys,
                  paused    |-> IF k \in {"p", "P"} THEN ~c.paused ELSE c.paused,
                  last_poll |-> IF k \in {"r", "R"} THEN 0 ELSE c.last_poll,
                  interval  |-> IF k = "+" THEN Min(60, c.interval + 1)
                                ELSE IF k = "-" THEN Max(1, c.interval - 1)
                                ELSE c.interval])

\* C16: every key the input step of a tick consumes from the buffer has its
\* action applied, in arrival order.
C16_EveryConsumedKeyApplied ==
    [][(pc = "input" /\ kbuf # <<>> /\ kbuf' # kbuf) =>
          LET consumed == SubSeq(kbuf, 1, Len(kbuf) - Len(kbuf'))
              c == ApplyKeys(consumed,
                             [quit |-> FALSE, paused |-> paused,
                              last_poll |-> last_poll, interval |-> interval])
          IN  /\ (pc' = "finally") = c.quit
              /\ paused' = c.paused
              /\ last_poll' = c.last_poll
              /\ interval' = c.interval]_vars

---------------------------------------------------------------------------
(* Properties of the sample arithmetic of _poll, checked under PollSpec *)

\* C17: a Progress round carrying a percentage p sets eta to a duration only
\* when dp = p - prev_pct > 0 and dt = now - prev_time > 0, and to "--"
\* otherwise; the duration is the whole number of seconds of
\* (100 - p) * dt / dp, never negative, laid out with minutes and seconds
\* below 60.
C17_EtaOnlyFromPositiveRate ==
    [][(Dev.status \notin {"done", "failed"} /\ RoundPct(round') # <<>>) =>
         LET p  == RoundPct(round')[1]
             dp == p - Dev.prev_pct
             dt == clock' - Dev.prev_time
             e  == Dev'.eta
         IN  IF dp > 0 /\ dt > 0
             THEN /\ e.k \in {"hms", "ms", "s"}
                  /\ e.h >= 0 /\ e.m \in 0..59 /\ e.s \in 0..59
                  /\ e.h * 3600 + e.m * 60 + e.s =
                        (IF p >= 10000 THEN 0 ELSE ((10000 - p) * dt) \div dp)
                  /\ e.k = "s" => (e.h = 0 /\ e.m = 0)
                  /\ e.k = "ms" => (e.h = 0 /\ e.m > 0)
                  /\ e.k = "hms" => e.h > 0
             ELSE e = EtaUnknown]_vars

\* C17 witness: a sample of 42.5% taken after a lower one, two seconds after
\* construction, has the computed eta 1s.
C17_Witness ==
    /\ Dev.status = "formatting"
    /\ Dev.prev_pct = 4250
    /\ Dev.prev_time = Dev.start + 2
    /\ Dev.eta = [k |-> "s", h |-> 0, m |-> 0, s |-> 1]
    /\ round = <<TimedOut, Completed(<<MARKER, DEC(4250), PCT>>)>>

\* C18: on a Progress round the sample is the leftmost literal percentage if
\* the text has one, whatever ratio it also has; else the leftmost ratio A/B
\* with B 65535 or 65536, as A/B*100; with neither, the device still becomes
\* formatting with ever_started true and progress, eta, prev_pct and
\* prev_time stay as they were.
C18_ExtractionOrder ==
    [][(/\ Dev.status \notin {"done", "failed"}
        /\ RoundRan(round')
        /\ HasProgressMarker(RoundText(round'))) =>
         LET t == RoundText(round')
             P == { i \in 1..(Len(t) - 1) :
                      t[i][1] \in {"int", "dec"} /\ t[i + 1][1] = "pct" }
             R == { i \in 1..(Len(t) - 2) :
                      /\ t[i][1] = "int" /\ t[i][2] <= 99999
                      /\ t[i + 1][1] = "slash"
                      /\ t[i + 2] \in {INT(65535), INT(65536)} }
         IN  /\ Dev'.status = "formatting"
             /\ Dev'.ever_started
             /\ P # {} =>
                  /\ Dev'.prev_pct = TokenValue(t[Leftmost(P)])
                  /\ Dev'.prev_time = clock'
             /\ (P = {} /\ R # {}) =>
                  /\ Dev'.prev_pct = (t[Leftmost(R)][2] * 10000) \div t[Leftmost(R) + 2][2]
                  /\ Dev'.prev_time = clock'
             /\ (P = {} /\ R = {}) =>
                  /\ Dev'.progress = Dev.progress
                  /\ Dev'.eta = Dev.eta
                  /\ Dev'.prev_pct = Dev.prev_pct
                  /\ Dev'.prev_time = Dev.prev_time]_vars

\* C18 witness: a text with the ratio 12345/65535 ahead of the literal 70%
\* has set the sample to 70%.
C18_Witness ==
    /\ Dev.status = "formatting"
    /\ Dev.prev_pct = 7000
    /\ Dev.progress = 7000
    /\ round = <<Completed(<<MARKER, INT(12345), SLASH, INT(65535), WORD, INT(70), PCT>>),
                 Completed(<<>>)>>

\* C20: progress is always within [0,100]; done goes with progress 100 and
\* ever_started, failed with progress 0 and eta "--", waiting with progress 0
\* and ever_started false, formatting with ever_started.
C20_StatusInvariants ==
    \A i \in 1..Len(states) :
        LET st == states[i]
        IN  /\ st.progress >= 0 /\ st.progress <= 10000
            /\ st.status = "done" => (st.progress = 10000 /\ st.ever_started)
            /\ st.status = "failed" => (st.progress = 0 /\ st.eta = EtaUnknown)
            /\ st.status = "waiting" => (st.progress = 0 /\ ~st.ever_started)
            /\ st.status = "formatting" => st.ever_started

\* C20 witness: the tool has reported 120% and the device shows 100%.
C20_Witness ==
    /\ Dev.status = "formatting"
    /\ Dev.prev_pct = 12000
    /\ Dev.progress = 10000

---------------------------------------------------------------------------
(* Properties of _vis_trunc, checked under TruncSpec *)

\* C19: for a string made of visible characters and colour-control
\* sequences and a width w >= 0, the result of _vis_trunc is a run of whole
\* leading parts of the string (no sequence is split) with at most w visible
\* characters among them, followed by the reset sequence whenever a control
\* sequence is among them.
C19_TruncKeepsSequencesWhole ==
    vt.at = "returned" =>
        \E k \in 0..Len(vt.parts) :
            LET body   == Flatten(SubSeq(vt.parts, 1, k))
                hasSeq == \E j \in 1..k : vt.parts[j][1] = ESC
            IN  /\ vt.out \in {body, body \o <<ESC, "[", "0", "m">>}
                /\ hasSeq => vt.out = body \o <<ESC, "[", "0", "m">>
                /\ Cardinality({j \in 1..k : vt.parts[j][1] # ESC}) <= vt.width

\* C19 witness: "a", a colour sequence, "3" cut to width 1 gives "a", the
\* sequence and the reset.
C19_Witness ==
    /\ vt.at = "returned"
    /\ vt.parts = << <<"a">>, <<ESC, "[", "3", "m">>, <<"3">> >>
    /\ vt.width = 1
    /\ vt.out = <<"a", ESC, "[", "3", "m", ESC, "[", "0", "m">>

---------------------------------------------------------------------------
(* Timeouts and completion, checked under PollSpec *)

\* C21 as stated: a round in which both invocations time out leaves the
\* device and the log as they were, and a round with a completed invocation
\* whose text has no progress marker makes a formatting device done.
C21_SilenceCompletesTimeoutsDoNot ==
    [][/\ round' = <<TimedOut, TimedOut>> =>
            (Dev' = Dev /\ logfile' = logfile)
       /\ (/\ Dev.status = "formatting"
           /\ RoundRan(round')
           /\ RoundOutputs(round') # <<>>
           /\ ~HasProgressMarker(RoundText(round')))
            => Dev'.status = "done"]_vars

\* C21 amended: a round in which both invocations time out leaves the device
\* and the log as they were, in formatting too; a round with a completed
\* invocation whose text has neither progress marker nor error keyword makes a
\* formatting device done (progress 100, eta "done", one FORMAT_COMPLETE
\* record); with an error keyword and no marker it makes the device failed.
C21_TimeoutsAreNotCompletion ==
    [][/\ round' = <<TimedOut, TimedOut>> =>
            (Dev' = Dev /\ logfile' = logfile /\ raised' = "none")
       /\ (/\ Dev.status = "formatting"
           /\ RoundRan(round')
           /\ RoundOutputs(round') # <<>>
           /\ ~HasProgressMarker(RoundText(round')))
            => IF HasErrorKeyword(RoundText(round'))
               THEN /\ Dev'.status = "failed"
                    /\ logfile' = Append(logfile, <<"FORMAT_FAILED", Dev.slot, Dev.path>>)
               ELSE /\ Dev'.status = "done"
                    /\ Dev'.progress = 10000
                    /\ Dev'.eta = EtaDone
                    /\ logfile' = Append(logfile, <<"FORMAT_COMPLETE", Dev.slot, Dev.path>>)]_vars

\* C21 witness: a device in formatting at 10% after a round in which both
\* invocations timed out.
C21_Witness ==
    /\ Dev.status = "formatting"
    /\ Dev.ever_started
    /\ Dev.progress = 1000
    /\ logfile = <<>>
    /\ calls = 2
    /\ round = <<TimedOut, TimedOut>>

---------------------------------------------------------------------------
(* The completion wait and never-started devices, checked under Spec *)

\* Every device went from waiting to failed: none ever started
AllFailedUnstarted ==
    \A i \in 1..Len(states) :
        states[i].status = "failed" /\ ~states[i].ever_started

\* C22: the completion wait is entered, and the 'complete' footer shown, only
\* if some device has ever_started true; once every device is failed without
\* having started, no step changes a device or the log, the check step of
\* each tick draws the plain frame and goes on to the next tick, and the
\* session ends without exception only by reading a quit key.
C22_WaitNeedsStartedDevice ==
    [][/\ (pc' = "wait" /\ pc # "wait") =>
            \E i \in 1..Len(states) : states[i].ever_started
       /\ footer' = CompleteFooter =>
            \E i \in 1..Len(states') : states'[i].ever_started
       /\ AllFailedUnstarted =>
            /\ states' = states
            /\ logfile' = logfile
            /\ pc' # "wait"
            /\ (pc = "check" /\ pc' # "finally") =>
                 /\ pc' = "input"
                 /\ footer' = ""
                 /\ \A i \in 1..Len(states) : frame'.rows[i].label = "FAILED"
            /\ (pc' = "finally" /\ pc # "finally" /\ exc' = "none") =>
                 KeyRead \in QuitKeys]_vars

\* C22 witness: both devices failed without starting, and the loop is at the
\* input step of a later tick with the plain frame on screen.
C22_Witness ==
    /\ AllFailedUnstarted
    /\ pc = "input"
    /\ clock = MaxClock
    /\ footer = ""
    /\ frame.rows[1].label = "FAILED"
    /\ frame.rows[2].label = "FAILED"

====
